---- MODULE Spec2Model ----
(***************************************************************************)
(* Model of FileManager (src/src/utils/file_manager/file_manager.py): the  *)
(* catalog index kept in memory (self.index), the index file on disk       *)
(* (data/index.json), and the content files under data/current and         *)
(* data/archives, analysis_results/* and podcasts/*.                       *)
(***************************************************************************)
EXTENDS Integers, Sequences, FiniteSets, TLC

VARIABLES
    index,        \* self.index: the in-memory catalog document
    index_file,   \* data/index.json on disk
    data_fs,      \* content files of data/current and data/archives: path -> content
    analysis_fs,  \* file names present in analysis_results/{daily,weekly,monthly}
    podcast_fs,   \* file names present in podcasts/{weekly,monthly}
    peer,         \* self.index of a second FileManager built over the same base path
    now,          \* the wall clock (datetime.now()), in days
    faults,       \* input/output faults the environment has caused so far
    ret           \* the last call: operation, outcome, exception raised, the number of
                  \* files it moved or entries it demoted, a note on the path taken,
                  \* and whether it repeats the call before it (same arguments)

vars == <<index, index_file, peer, data_fs, analysis_fs, podcast_fs, now, faults, ret>>

----------------------------------------------------------------------------
(* Bounds of the model *)

MaxSnapshots == 2     \* entries of index["data_files"]
MaxDay == 1           \* days the clock runs, and days of the timestamps
MaxResults == 1       \* analysis results registered by register_analysis_result
MaxPodcasts == 1      \* podcasts registered by register_podcast
MaxFaults == 1        \* input/output faults the environment causes

Days == 0 .. MaxDay
Secs == {0}
Micros == {0, 1}
Timestamps == [day : Days, sec : Secs, micro : Micros]
DaysThresholds == {0, 1}
Ids == Days \X Secs
\* a date argument: None (today) or a date string
DateArgs == {<<>>, <<0>>}

AnalysisTypes == {"daily_digest", "weekly_summary", "monthly_report", "wordcloud"}
\* paths a caller hands to register_analysis_result
AnalysisPaths ==
    {[folder |-> "daily", name |-> [prefix |-> "report_", date |-> 0, ext |-> "md"]],
     [folder |-> "daily", name |-> [prefix |-> "report_", date |-> 0, ext |-> "txt"]]}
FileTypes == <<"csv", "json">>

\* a text value that is JSON null / Python None instead of a string
NoneText == <<"None">>

\* Items of a collected data set: dictionaries with "type", "source", "title"
\* and "summary"; a text is the sequence of its characters
ItemNews1 ==
    [type |-> "news", source |-> "blog", title |-> <<"Q", "K", "D">>, summary |-> <<"x">>]
ItemNews2 ==
    [type |-> "news", source |-> "blog", title |-> <<"x">>, summary |-> <<>>]
ItemResearch ==
    [type |-> "research", source |-> "arxiv", title |-> <<"x">>,
     summary |-> <<"x", "q", "k", "d">>]
ItemNoSummary ==
    [type |-> "news", source |-> "blog", title |-> <<"q", "k", "d">>, summary |-> NoneText]
DataSets == {<<>>, <<ItemNews1, ItemNews2, ItemResearch>>}
\* data sets for the keyword search, and the keywords searched for
SearchDataSets ==
    {<<ItemNews1, ItemNews2>>, <<ItemResearch>>, <<ItemNews2>>, <<ItemNoSummary>>}
Keywords == {<<"q", "k", "d">>, <<"K", "D">>, <<"z">>}

----------------------------------------------------------------------------
(* Helpers *)

RECURSIVE CountIf(_, _)
CountIf(seq, t) ==
    IF seq = <<>> THEN 0
    ELSE (IF Head(seq).type = t THEN 1 ELSE 0) + CountIf(Tail(seq), t)

\* timestamp.strftime("%Y%m%d_%H%M%S"): second resolution, microseconds dropped
StrftimeId(ts) == <<ts.day, ts.sec>>
\* timestamp.strftime("%Y-%m-%d") and timestamp.strftime("%H:%M:%S")
StrftimeDate(ts) == ts.day
StrftimeTime(ts) == ts.sec

\* string order of two ids "YYYYMMDD_HHMMSS" (fixed width: lexicographic)
IdLess(a, b) == a[1] < b[1] \/ (a[1] = b[1] /\ a[2] < b[2])

\* f"quantum_crypto_data_{timestamp_str}.csv" / ".json"
DataFilename(id, ext) == [id |-> id, ext |-> ext]
\* os.path.join("data", folder, filename)
DataPath(folder, filename) == [folder |-> folder, name |-> filename]

\* os.path.exists(os.path.join(self.base_path, path))
Exists(fs, path) == path \in DOMAIN fs

\* open(path, 'w') + write: creates or overwrites
WriteFile(fs, path, content) ==
    [p \in DOMAIN fs \cup {path} |-> IF p = path THEN content ELSE fs[p]]

RemoveFile(fs, path) == [p \in DOMAIN fs \ {path} |-> fs[p]]

\* shutil.move(src, dst): os.rename; a rename of a file onto itself changes
\* nothing, a rename onto another existing file replaces it
MoveFile(fs, src, dst) ==
    IF src = dst THEN fs
    ELSE WriteFile(RemoveFile(fs, src), dst, fs[src])

\* a content file as written by json.dump(data) / df.to_csv
GoodContent(data) == [ok |-> TRUE, data |-> data]
\* a content file opened for writing whose dump did not complete
PartialContent == [ok |-> FALSE, data |-> <<>>]

None == <<>>
Some(v) == <<v>>

Ret(op, ok, raised, count, note) ==
    [op |-> op, ok |-> ok, raised |-> raised, count |-> count, note |-> note,
     again |-> FALSE]

----------------------------------------------------------------------------
(* Index store *)

\* _create_new_index
CreateNewIndex(t) ==
    [last_updated |-> t,
     data_files |-> <<>>,
     analysis_metrics |-> [last_daily_digest |-> None,
                           last_weekly_summary |-> None,
                           last_monthly_report |-> None],
     podcasts |-> <<>>]

\* _save_index: stamps last_updated and rewrites the whole file
Stamped(doc, t) == [doc EXCEPT !.last_updated = t]
SavedFile(doc) == [kind |-> "valid", doc |-> doc]

AbsentFile == [kind |-> "absent", doc |-> CreateNewIndex(0)]

----------------------------------------------------------------------------
(* save_collected_data *)

\* the stats dictionary computed from the collected data
ComputeStats(data) ==
    [total_items |-> Len(data),
     scientific_articles |-> CountIf(data, "research"),
     news_articles |-> CountIf(data, "news"),
     unique_sources |-> Cardinality({data[i].source : i \in 1 .. Len(data)})]

NewEntry(ts, data) ==
    [id |-> StrftimeId(ts),
     date |-> StrftimeDate(ts),
     time |-> StrftimeTime(ts),
     file_paths |-> [csv |-> DataPath("current", DataFilename(StrftimeId(ts), "csv")),
                     json |-> DataPath("current", DataFilename(StrftimeId(ts), "json"))],
     stats |-> ComputeStats(data),
     status |-> "current",
     analysis_results |-> <<>>]

\* a demotion that looks at the entry before the new one only
DemoteLastOnly(files) ==
    [i \in 1 .. Len(files) |->
        IF i = Len(files) /\ files[i].status = "current"
        THEN [files[i] EXCEPT !.status = "archived"]
        ELSE files[i]]

\* the loop marking the previously current entries as archived
DemoteCurrent(files) ==
    [i \in 1 .. Len(files) |->
        IF files[i].status = "current"
        THEN [files[i] EXCEPT !.status = "archived"]
        ELSE files[i]]

\* how many entries the loop demotes
Demoted(files) == Cardinality({i \in 1 .. Len(files) : files[i].status = "current"})

\* an index that takes the new entry in front of the others
WithNewEntryInFront(doc, ts, data) ==
    [doc EXCEPT !.data_files = <<NewEntry(ts, data)>> \o DemoteCurrent(doc.data_files)]

\* the index after the demotion and the append
WithNewEntry(doc, ts, data) ==
    [doc EXCEPT !.data_files = Append(DemoteCurrent(doc.data_files), NewEntry(ts, data))]

SaveCollectedData(ts, data) ==
    /\ LET id == StrftimeId(ts)
           csv_path == DataPath("current", DataFilename(id, "csv"))
           json_path == DataPath("current", DataFilename(id, "json"))
           doc == Stamped(WithNewEntry(index, ts, data), now)
       IN /\ data_fs' = WriteFile(WriteFile(data_fs, csv_path, GoodContent(data)),
                                  json_path, GoodContent(data))
          /\ index' = doc
          /\ index_file' = SavedFile(doc)
    /\ ret' = Ret("save_collected_data", TRUE, "", Demoted(index.data_files), "")
    /\ UNCHANGED <<peer, analysis_fs, podcast_fs, now, faults>>

\* a failing save that has demoted the current entries before it writes
SaveCollectedDataFailsLate(ts, data, stage) ==
    /\ LET id == StrftimeId(ts)
           csv_path == DataPath("current", DataFilename(id, "csv"))
           json_path == DataPath("current", DataFilename(id, "json"))
           with_csv == WriteFile(data_fs, csv_path, GoodContent(data))
       IN data_fs' = CASE stage = "csv" -> data_fs
                       [] stage = "json_open" -> with_csv
                       [] stage = "json_dump" -> WriteFile(with_csv, json_path, PartialContent)
    /\ index' = [index EXCEPT !.data_files = DemoteCurrent(@)]
    /\ faults' = faults + 1
    /\ ret' = Ret("save_collected_data", FALSE, "OSError", 0, stage)
    /\ UNCHANGED <<peer, index_file, analysis_fs, podcast_fs, now>>

\* save_collected_data when a content file cannot be written: to_csv raises
\* (stage "csv"), open(json_path, 'w') raises (stage "json_open"), or json.dump
\* raises after the file was opened for writing (stage "json_dump")
SaveCollectedDataFails(ts, data, stage) ==
    /\ LET id == StrftimeId(ts)
           csv_path == DataPath("current", DataFilename(id, "csv"))
           json_path == DataPath("current", DataFilename(id, "json"))
           with_csv == WriteFile(data_fs, csv_path, GoodContent(data))
       IN data_fs' = CASE stage = "csv" -> data_fs
                       [] stage = "json_open" -> with_csv
                       [] stage = "json_dump" -> WriteFile(with_csv, json_path, PartialContent)
    /\ faults' = faults + 1
    /\ ret' = Ret("save_collected_data", FALSE, "OSError", 0, stage)
    /\ UNCHANGED <<peer, index, index_file, analysis_fs, podcast_fs, now>>

----------------------------------------------------------------------------
(* register_analysis_result *)

\* date=None is today's date, a datetime is formatted, a string is kept
ResolveDate(date) == IF date = None THEN now ELSE date[1]

HasId(files, id) == \E i \in 1 .. Len(files) : files[i].id = id

\* the first entry the loop over index["data_files"] finds with this id
FirstWithId(files, id) ==
    CHOOSE i \in 1 .. Len(files) :
        /\ files[i].id = id
        /\ \A j \in 1 .. (i - 1) : files[j].id # id

HasResult(results, type, date) ==
    \E k \in 1 .. Len(results) : results[k].type = type /\ results[k].date = date

FirstResult(results, type, date) ==
    CHOOSE k \in 1 .. Len(results) :
        /\ results[k].type = type /\ results[k].date = date
        /\ \A j \in 1 .. (k - 1) : ~(results[j].type = type /\ results[j].date = date)

\* the inner for/else: overwrite the path of the first match, else append
PutResult(results, type, date, file_path) ==
    IF HasResult(results, type, date)
    THEN [results EXCEPT ![FirstResult(results, type, date)].file_path = file_path]
    ELSE Append(results, [type |-> type, date |-> date, file_path |-> file_path])

\* metrics that keep the later of the recorded date and the new one
UpdateMetricsKeepsLatest(metrics, type, date) ==
    LET later(old) == IF old # None /\ old[1] > date THEN old ELSE Some(date)
    IN CASE type = "daily_digest" ->
              [metrics EXCEPT !.last_daily_digest = later(@)]
         [] type = "weekly_summary" ->
              [metrics EXCEPT !.last_weekly_summary = later(@)]
         [] type = "monthly_report" ->
              [metrics EXCEPT !.last_monthly_report = later(@)]
         [] OTHER -> metrics

\* the if/elif chain on analysis_type
UpdateMetrics(metrics, type, date) ==
    CASE type = "daily_digest" -> [metrics EXCEPT !.last_daily_digest = Some(date)]
      [] type = "weekly_summary" -> [metrics EXCEPT !.last_weekly_summary = Some(date)]
      [] type = "monthly_report" -> [metrics EXCEPT !.last_monthly_report = Some(date)]
      [] OTHER -> metrics

RECURSIVE SumLen(_)
SumLen(files) ==
    IF files = <<>> THEN 0
    ELSE Len(Head(files).analysis_results) + SumLen(Tail(files))

\* the index after a call that found data_id
WithResult(doc, data_id, type, file_path, date) ==
    LET i == FirstWithId(doc.data_files, data_id)
    IN [doc EXCEPT
          !.data_files[i].analysis_results = PutResult(@, type, date, file_path),
          !.analysis_metrics = UpdateMetrics(@, type, date)]

\* a registration that saves the index before it looks for data_id
RegisterAnalysisResultSavesFirst(data_id, type, file_path, date_arg) ==
    LET date == ResolveDate(date_arg)
    IN IF ~HasId(index.data_files, data_id)
       THEN /\ index' = Stamped(index, now)
            /\ index_file' = SavedFile(Stamped(index, now))
            /\ ret' = Ret("register_analysis_result", FALSE, "", 0, "not_found")
            /\ UNCHANGED <<peer, data_fs, analysis_fs, podcast_fs, now, faults>>
       ELSE LET i == FirstWithId(index.data_files, data_id)
                known == HasResult(index.data_files[i].analysis_results, type, date)
                doc == Stamped(WithResult(index, data_id, type, file_path, date), now)
            IN /\ index' = doc
               /\ index_file' = SavedFile(doc)
               /\ ret' = Ret("register_analysis_result", TRUE, "", 0,
                             IF known THEN "updated" ELSE "added")
               /\ UNCHANGED <<peer, data_fs, analysis_fs, podcast_fs, now, faults>>

RegisterAnalysisResult(data_id, type, file_path, date_arg) ==
    LET date == ResolveDate(date_arg)
    IN IF ~HasId(index.data_files, data_id)
       THEN /\ ret' = Ret("register_analysis_result", FALSE, "", 0, "not_found")
            /\ UNCHANGED <<peer, index, index_file, data_fs, analysis_fs, podcast_fs,
                           now, faults>>
       ELSE LET i == FirstWithId(index.data_files, data_id)
                known == HasResult(index.data_files[i].analysis_results, type, date)
                doc == Stamped(WithResult(index, data_id, type, file_path, date), now)
            IN /\ index' = doc
               /\ index_file' = SavedFile(doc)
               /\ ret' = Ret("register_analysis_result", TRUE, "", 0,
                             IF known THEN "updated" ELSE "added")
               /\ UNCHANGED <<peer, data_fs, analysis_fs, podcast_fs, now, faults>>

----------------------------------------------------------------------------
(* register_podcast *)

PodcastTypes == {"weekly", "monthly"}

WithPodcast(doc, type, script_path, audio_path, date) ==
    [doc EXCEPT !.podcasts = Append(@, [type |-> type, date |-> date,
                                        script_path |-> script_path,
                                        audio_path |-> audio_path])]

RegisterPodcast(type, script_path, audio_path, date_arg) ==
    /\ LET doc == Stamped(WithPodcast(index, type, script_path, audio_path,
                                      ResolveDate(date_arg)), now)
       IN /\ index' = doc
          /\ index_file' = SavedFile(doc)
    /\ ret' = Ret("register_podcast", TRUE, "", 0, "")
    /\ UNCHANGED <<peer, data_fs, analysis_fs, podcast_fs, now, faults>>

----------------------------------------------------------------------------
(* archive_old_data *)

\* an iteration that moves without looking whether the file is there: a missing
\* file gets its path rewritten and is counted
ArchiveFileUnchecked(st, i, ft) ==
    LET source_path == st.files[i].file_paths[ft]
        dest_path == DataPath("archives", source_path.name)
    IN [files |-> [st.files EXCEPT ![i].file_paths[ft] = dest_path],
        fs |-> IF Exists(st.fs, source_path)
               THEN MoveFile(st.fs, source_path, dest_path)
               ELSE st.fs,
        count |-> st.count + 1]

\* one iteration of the inner loop: file type ft of entry i
ArchiveFile(st, i, ft) ==
    LET source_path == st.files[i].file_paths[ft]
        dest_path == DataPath("archives", source_path.name)
    IN IF Exists(st.fs, source_path)
       THEN [files |-> [st.files EXCEPT ![i].file_paths[ft] = dest_path],
             fs |-> MoveFile(st.fs, source_path, dest_path),
             count |-> st.count + 1]
       ELSE st

\* one iteration of the outer loop: entry i, against threshold_str
ArchiveEntry(st, i, threshold) ==
    IF st.files[i].status = "archived" /\ st.files[i].date < threshold
    THEN ArchiveFile(ArchiveFile(st, i, FileTypes[1]), i, FileTypes[2])
    ELSE st

RECURSIVE ArchiveLoop(_, _, _)
ArchiveLoop(st, i, threshold) ==
    IF i > Len(st.files) THEN st
    ELSE ArchiveLoop(ArchiveEntry(st, i, threshold), i + 1, threshold)

\* the index written before the loop rewrites the paths instead of after it
ArchiveOldDataSavesFirst(days_threshold) ==
    LET threshold == now - days_threshold
        st == ArchiveLoop([files |-> index.data_files, fs |-> data_fs, count |-> 0],
                          1, threshold)
        moved == [index EXCEPT !.data_files = st.files]
    IN /\ data_fs' = st.fs
       /\ IF st.count > 0
          THEN /\ index' = Stamped(moved, now)
               /\ index_file' = SavedFile(Stamped(index, now))
          ELSE /\ index' = moved
               /\ UNCHANGED index_file
       /\ ret' = [Ret("archive_old_data", TRUE, "", st.count, Some(days_threshold))
                   EXCEPT !.again = (ret.op = "archive_old_data"
                                     /\ ret.note = Some(days_threshold))]
       /\ UNCHANGED <<peer, analysis_fs, podcast_fs, now, faults>>

ArchiveOldData(days_threshold) ==
    LET threshold == now - days_threshold
        st == ArchiveLoop([files |-> index.data_files, fs |-> data_fs, count |-> 0],
                          1, threshold)
        moved == [index EXCEPT !.data_files = st.files]
    IN /\ data_fs' = st.fs
       /\ IF st.count > 0
          THEN /\ index' = Stamped(moved, now)
               /\ index_file' = SavedFile(Stamped(moved, now))
          ELSE /\ index' = moved
               /\ UNCHANGED index_file
       /\ ret' = [Ret("archive_old_data", TRUE, "", st.count, Some(days_threshold))
                   EXCEPT !.again = (ret.op = "archive_old_data"
                                     /\ ret.note = Some(days_threshold))]
       /\ UNCHANGED <<peer, analysis_fs, podcast_fs, now, faults>>

----------------------------------------------------------------------------
(* Queries *)

\* os.path.join(self.base_path, relative_path)
Joined(path) == [base |-> ".", rel |-> path]

RECURSIVE LastCurrent(_, _)
\* reversed(index["data_files"]): the first entry from the end marked current, 0 if none
LastCurrent(files, i) ==
    IF i = 0 THEN 0
    ELSE IF files[i].status = "current" THEN i
    ELSE LastCurrent(files, i - 1)

\* a lookup that takes the last entry whatever its status
GetLastDataFile(doc, file_type) ==
    IF doc.data_files = <<>> THEN None
    ELSE Some(Joined(doc.data_files[Len(doc.data_files)].file_paths[file_type]))

RECURSIVE AllResults(_)
\* the analyses in the order the nested loops of get_analysis_by_type visit them
AllResults(files) ==
    IF files = <<>> THEN <<>>
    ELSE Head(files).analysis_results \o AllResults(Tail(files))

RECURSIVE ScanLatestOrEqual(_, _, _, _)
\* a scan that also takes an analysis whose date equals the best so far
ScanLatestOrEqual(results, type, i, best) ==
    IF i > Len(results) THEN best
    ELSE ScanLatestOrEqual(results, type, i + 1,
            IF /\ results[i].type = type
               /\ (best = 0 \/ results[i].date >= results[best].date)
            THEN i ELSE best)

RECURSIVE ScanLatest(_, _, _, _)
\* the scan for the most recent: target_date / target_file are those of
\* results[best], best = 0 while target_date is None
ScanLatest(results, type, i, best) ==
    IF i > Len(results) THEN best
    ELSE ScanLatest(results, type, i + 1,
            IF /\ results[i].type = type
               /\ (best = 0 \/ results[i].date > results[best].date)
            THEN i ELSE best)

\* the first analysis of this type and date, 0 if none
FirstOfDate(results, type, date) ==
    IF \E k \in 1 .. Len(results) : results[k].type = type /\ results[k].date = date
    THEN CHOOSE k \in 1 .. Len(results) :
            /\ results[k].type = type /\ results[k].date = date
            /\ \A j \in 1 .. (k - 1) : ~(results[j].type = type /\ results[j].date = date)
    ELSE 0

\* get_analysis_by_type
GetAnalysisByType(doc, analysis_type, date_arg) ==
    LET results == AllResults(doc.data_files)
        k == IF date_arg = None
             THEN ScanLatest(results, analysis_type, 1, 0)
             ELSE FirstOfDate(results, analysis_type, date_arg[1])
    IN IF k = 0 THEN None ELSE Some(Joined(results[k].file_path))

\* get_latest_data_file
GetLatestDataFile(doc, file_type) ==
    IF doc.data_files = <<>> THEN None
    ELSE LET k == LastCurrent(doc.data_files, Len(doc.data_files))
         IN IF k # 0
            THEN Some(Joined(doc.data_files[k].file_paths[file_type]))
            ELSE Some(Joined(doc.data_files[Len(doc.data_files)].file_paths[file_type]))

\* str.lower(), on the characters the texts of the model use
LowerChar(c) ==
    CASE c = "Q" -> "q"
      [] c = "K" -> "k"
      [] c = "D" -> "d"
      [] OTHER -> c

TextLower(text) == [i \in 1 .. Len(text) |-> LowerChar(text[i])]

\* sub in text
IsSubstring(sub, text) ==
    \E i \in 0 .. (Len(text) - Len(sub)) : SubSeq(text, i + 1, i + Len(sub)) = sub

\* item.get("title", "").lower() or item.get("summary", "").lower() raises
\* AttributeError: the value is None
ItemRaises(item) == item.title = NoneText \/ item.summary = NoneText

\* a match that compares the texts as they are, without lower()
ItemMatchesAsWritten(item, keyword) ==
    \/ IsSubstring(keyword, item.title)
    \/ IsSubstring(keyword, item.summary)

\* keyword in title or keyword in summary, keyword already lower-cased
ItemMatches(item, keyword) ==
    \/ IsSubstring(keyword, TextLower(item.title))
    \/ IsSubstring(keyword, TextLower(item.summary))

\* the body of the loop of search_by_keyword for one entry: the results it
\* appends (none or one); any exception in the try block drops the file
SearchFile(entry, fs, keyword) ==
    LET json_path == entry.file_paths.json
    IN IF ~Exists(fs, json_path) THEN <<>>
       ELSE IF ~fs[json_path].ok THEN <<>>
       ELSE LET data == fs[json_path].data
                matches == SelectSeq(data, LAMBDA item : ItemMatches(item, keyword))
            IN IF \E k \in 1 .. Len(data) : ItemRaises(data[k]) THEN <<>>
               ELSE IF matches # <<>>
                    THEN <<[file_id |-> entry.id, date |-> entry.date, matches |-> matches]>>
                    ELSE <<>>

RECURSIVE SearchFiles(_, _, _)
SearchFiles(files, fs, keyword) ==
    IF files = <<>> THEN <<>>
    ELSE SearchFile(Head(files), fs, keyword) \o SearchFiles(Tail(files), fs, keyword)

\* search_by_keyword
SearchByKeyword(doc, fs, keyword) == SearchFiles(doc.data_files, fs, TextLower(keyword))

----------------------------------------------------------------------------
(* __init__ / _load_index, and what can happen to the index file *)

\* _load_index on a file that exists and parses, is absent, or raises JSONDecodeError
LoadedIndex(file, t) ==
    CASE file.kind = "valid" -> file.doc
      [] file.kind = "absent" -> CreateNewIndex(t)
      [] file.kind = "truncated" -> CreateNewIndex(t)

\* the exception _load_index lets through: "" when it returns a document.
\* open(..., encoding='utf-8') + json.load raise UnicodeDecodeError on bytes that
\* are not UTF-8; the handler catches json.JSONDecodeError only
LoadRaises(file) ==
    IF file.kind = "undecodable" THEN "UnicodeDecodeError" ELSE ""

\* a new FileManager over the same base path (a restart of the process)
LoadIndex ==
    /\ IF LoadRaises(index_file) = ""
       THEN /\ index' = LoadedIndex(index_file, now)
            /\ ret' = Ret("load_index", TRUE, "", 0, index_file.kind)
       ELSE /\ UNCHANGED index
            /\ ret' = Ret("load_index", FALSE, LoadRaises(index_file), 0, index_file.kind)
    /\ UNCHANGED <<peer, index_file, data_fs, analysis_fs, podcast_fs, now, faults>>

\* the index file is damaged outside the program: cut short (still text), or
\* cut inside a multi-byte character / overwritten with bytes that are not UTF-8
CorruptIndexFile(kind) ==
    /\ index_file.kind = "valid"
    /\ index_file' = [index_file EXCEPT !.kind = kind]
    /\ faults' = faults + 1
    /\ ret' = Ret("corrupt_index_file", TRUE, "", 0, kind)
    /\ UNCHANGED <<peer, index, data_fs, analysis_fs, podcast_fs, now>>

----------------------------------------------------------------------------
(* The operations when the file system denies a write (OSError), and when the *)
(* process is stopped inside _save_index                                      *)

\* data/index.json after a _save_index that did not complete: open(..., 'w')
\* was denied (the file is as before), or it truncated the file and json.dump
\* wrote nothing ("index_open" denied / "opened"), or a part of the document
\* ("index_dump" / "dumping"), or the whole of it ("closed")
IndexFileAfter(doc, stage) ==
    CASE stage \in {"index_open", "before_open"} -> index_file
      [] stage \in {"index_dump", "opened", "dumping"} -> [kind |-> "truncated", doc |-> doc]
      [] stage = "closed" -> SavedFile(doc)

\* save_collected_data when _save_index raises: the content files are written
\* and self.index already holds the demotions and the new entry
SaveCollectedDataIndexFails(ts, data, stage) ==
    /\ LET id == StrftimeId(ts)
           csv_path == DataPath("current", DataFilename(id, "csv"))
           json_path == DataPath("current", DataFilename(id, "json"))
           doc == Stamped(WithNewEntry(index, ts, data), now)
       IN /\ data_fs' = WriteFile(WriteFile(data_fs, csv_path, GoodContent(data)),
                                  json_path, GoodContent(data))
          /\ index' = doc
          /\ index_file' = IndexFileAfter(doc, stage)
    /\ faults' = faults + 1
    /\ ret' = Ret("save_collected_data", FALSE, "OSError", 0, stage)
    /\ UNCHANGED <<peer, analysis_fs, podcast_fs, now>>

\* register_analysis_result, for an id it finds, when _save_index raises
RegisterAnalysisResultIndexFails(data_id, type, file_path, date_arg, stage) ==
    /\ HasId(index.data_files, data_id)
    /\ LET doc == Stamped(WithResult(index, data_id, type, file_path,
                                     ResolveDate(date_arg)), now)
       IN /\ index' = doc
          /\ index_file' = IndexFileAfter(doc, stage)
    /\ faults' = faults + 1
    /\ ret' = Ret("register_analysis_result", FALSE, "OSError", 0, stage)
    /\ UNCHANGED <<peer, data_fs, analysis_fs, podcast_fs, now>>

\* register_podcast when _save_index raises
RegisterPodcastIndexFails(type, script_path, audio_path, date_arg, stage) ==
    /\ LET doc == Stamped(WithPodcast(index, type, script_path, audio_path,
                                      ResolveDate(date_arg)), now)
       IN /\ index' = doc
          /\ index_file' = IndexFileAfter(doc, stage)
    /\ faults' = faults + 1
    /\ ret' = Ret("register_podcast", FALSE, "OSError", 0, stage)
    /\ UNCHANGED <<peer, data_fs, analysis_fs, podcast_fs, now>>

\* one iteration of the inner loop of archive_old_data when shutil.move raises
\* on the move after k successful ones
ArchiveFileOrRaise(w, i, ft, k) ==
    IF w.raised THEN w
    ELSE IF Exists(w.st.fs, w.st.files[i].file_paths[ft]) /\ w.st.count = k
         THEN [w EXCEPT !.raised = TRUE]
         ELSE [w EXCEPT !.st = ArchiveFile(w.st, i, ft)]

ArchiveEntryOrRaise(w, i, threshold, k) ==
    IF w.st.files[i].status = "archived" /\ w.st.files[i].date < threshold
    THEN ArchiveFileOrRaise(ArchiveFileOrRaise(w, i, FileTypes[1], k), i, FileTypes[2], k)
    ELSE w

RECURSIVE ArchiveLoopOrRaise(_, _, _, _)
ArchiveLoopOrRaise(w, i, threshold, k) ==
    IF i > Len(w.st.files) THEN w
    ELSE ArchiveLoopOrRaise(ArchiveEntryOrRaise(w, i, threshold, k), i + 1, threshold, k)

\* archive_old_data when a shutil.move raises: the files moved so far stay
\* moved, self.index holds their new paths, and _save_index is not reached
ArchiveOldDataMoveFails(days_threshold, k) ==
    LET w == ArchiveLoopOrRaise([st |-> [files |-> index.data_files, fs |-> data_fs,
                                        count |-> 0],
                                 raised |-> FALSE], 1, now - days_threshold, k)
    IN /\ w.raised
       /\ data_fs' = w.st.fs
       /\ index' = [index EXCEPT !.data_files = w.st.files]
       /\ faults' = faults + 1
       /\ ret' = Ret("archive_old_data", FALSE, "OSError", w.st.count, Some(days_threshold))
       /\ UNCHANGED <<peer, index_file, analysis_fs, podcast_fs, now>>

\* the process no longer runs: it was stopped inside a call
Running == ret.raised # "ProcessStopped"

\* save_collected_data of a process that is stopped (killed, power lost) inside
\* _save_index; index is what its memory held
SaveCollectedDataStopped(ts, data, stage) ==
    /\ LET id == StrftimeId(ts)
           csv_path == DataPath("current", DataFilename(id, "csv"))
           json_path == DataPath("current", DataFilename(id, "json"))
           doc == Stamped(WithNewEntry(index, ts, data), now)
       IN /\ data_fs' = WriteFile(WriteFile(data_fs, csv_path, GoodContent(data)),
                                  json_path, GoodContent(data))
          /\ index' = doc
          /\ index_file' = IndexFileAfter(doc, stage)
    /\ faults' = faults + 1
    /\ ret' = Ret("save_collected_data", FALSE, "ProcessStopped", 0, stage)
    /\ UNCHANGED <<peer, analysis_fs, podcast_fs, now>>

----------------------------------------------------------------------------
(* A second FileManager object over the same base path: it holds its own      *)
(* self.index, read once by its constructor, and shares the files on disk.    *)

\* the constructor of the second object: _load_index into its own self.index
PeerLoadIndex ==
    /\ LoadRaises(index_file) = ""
    /\ peer' = LoadedIndex(index_file, now)
    /\ ret' = Ret("peer.load_index", TRUE, "", 0, index_file.kind)
    /\ UNCHANGED <<index, index_file, data_fs, analysis_fs, podcast_fs, now, faults>>

\* save_collected_data called on the second object
PeerSaveCollectedData(ts, data) ==
    /\ LET id == StrftimeId(ts)
           csv_path == DataPath("current", DataFilename(id, "csv"))
           json_path == DataPath("current", DataFilename(id, "json"))
           doc == Stamped(WithNewEntry(peer, ts, data), now)
       IN /\ data_fs' = WriteFile(WriteFile(data_fs, csv_path, GoodContent(data)),
                                  json_path, GoodContent(data))
          /\ peer' = doc
          /\ index_file' = SavedFile(doc)
    /\ ret' = Ret("peer.save_collected_data", TRUE, "", Demoted(peer.data_files), "")
    /\ UNCHANGED <<index, analysis_fs, podcast_fs, now, faults>>

----------------------------------------------------------------------------
(* rebuild_index *)

RECURSIVE Perms(_)
\* the orders in which os.listdir may return a set of names
Perms(S) ==
    IF S = {} THEN {<<>>}
    ELSE UNION {{<<x>> \o p : p \in Perms(S \ {x})} : x \in S}

\* os.listdir of data/current or data/archives
ListData(fs, folder) == {p.name : p \in {q \in DOMAIN fs : q.folder = folder}}

\* filename.replace("quantum_crypto_data_", "").split(".")[0]
ParseFileId(name) == name.id
\* strptime(file_id.split("_")[0], "%Y%m%d").strftime("%Y-%m-%d")
ParseFileDate(file_id) == file_id[1]
\* strptime(file_id.split("_")[1], "%H%M%S").strftime("%H:%M:%S")
ParseFileTime(file_id) == file_id[2]

ZeroStats ==
    [total_items |-> 0, scientific_articles |-> 0, news_articles |-> 0, unique_sources |-> 0]

RebuiltEntry(file_id, folder, stats, status) ==
    [id |-> file_id,
     date |-> ParseFileDate(file_id),
     time |-> ParseFileTime(file_id),
     file_paths |-> [csv |-> DataPath(folder, DataFilename(file_id, "csv")),
                     json |-> DataPath(folder, DataFilename(file_id, "json"))],
     stats |-> stats,
     status |-> status,
     analysis_results |-> <<>>]

\* filename.startswith("quantum_crypto_data_") and it ends with ".json" or ".csv"
IsDataFilename(name) == name.ext \in {"csv", "json"}

\* both strptime calls succeed: the id has a date part and a time part
\* (split("_")[1] exists) and each matches its format
ParsesAsId(file_id) == Len(file_id) = 2 /\ file_id[1] >= 0 /\ file_id[2] >= 0

\* the try block of the loop over data/current raises for this filename: the
\* id does not parse, or json.load / the stats of its JSON file raise
ScanCurrentRaises(files, name, fs) ==
    LET file_id == ParseFileId(name)
        json_path == DataPath("current", DataFilename(file_id, "json"))
    IN /\ IsDataFilename(name)
       /\ \/ ~ParsesAsId(file_id)
          \/ ~HasId(files, file_id) /\ Exists(fs, json_path) /\ ~fs[json_path].ok

\* the body of the loop over data/current for one filename
ScanCurrentFile(files, name, fs) ==
    LET file_id == ParseFileId(name)
        json_path == DataPath("current", DataFilename(file_id, "json"))
    IN IF ~IsDataFilename(name) THEN files
       ELSE IF ScanCurrentRaises(files, name, fs)
       THEN files   \* except Exception: logged, the file is skipped
       ELSE IF HasId(files, file_id) THEN files
       ELSE IF Exists(fs, json_path)
            THEN Append(files, RebuiltEntry(file_id, "current",
                                            ComputeStats(fs[json_path].data), "current"))
            ELSE Append(files, RebuiltEntry(file_id, "current", ZeroStats, "current"))

RECURSIVE ScanCurrentStopsAtBadFile(_, _, _)
\* a scan whose try block is around the whole loop: the first file that raises
\* ends the scan of the directory
ScanCurrentStopsAtBadFile(files, order, fs) ==
    IF order = <<>> THEN files
    ELSE IF ScanCurrentRaises(files, Head(order), fs) THEN files
    ELSE ScanCurrentStopsAtBadFile(ScanCurrentFile(files, Head(order), fs), Tail(order), fs)

RECURSIVE ScanCurrent(_, _, _)
ScanCurrent(files, order, fs) ==
    IF order = <<>> THEN files
    ELSE ScanCurrent(ScanCurrentFile(files, Head(order), fs), Tail(order), fs)

\* an archive scan that updates the entries it knows and adds none
ScanArchiveFileKnownOnly(files, name) ==
    LET file_id == ParseFileId(name)
    IN IF HasId(files, file_id)
       THEN [files EXCEPT ![FirstWithId(files, file_id)] =
                [@ EXCEPT !.status = "archived",
                          !.file_paths[name.ext] = DataPath("archives", name)]]
       ELSE files

\* the body of the loop over data/archives for one filename
ScanArchiveFile(files, name) ==
    LET file_id == ParseFileId(name)
    IN IF ~IsDataFilename(name) THEN files
       ELSE IF ~ParsesAsId(file_id)
       THEN files   \* except Exception: logged, the file is skipped
       ELSE IF HasId(files, file_id)
       THEN [files EXCEPT ![FirstWithId(files, file_id)] =
                [@ EXCEPT !.status = "archived",
                          !.file_paths[name.ext] = DataPath("archives", name)]]
       ELSE Append(files, RebuiltEntry(file_id, "archives", ZeroStats, "archived"))

RECURSIVE ScanArchives(_, _)
ScanArchives(files, order) ==
    IF order = <<>> THEN files
    ELSE ScanArchives(ScanArchiveFile(files, Head(order)), Tail(order))

AnalysisFolders == <<"daily", "weekly", "monthly">>
AnalysisPrefixes == {"daily_digest_", "weekly_summary_", "monthly_report_"}

\* os.listdir of analysis_results/<folder>
ListAnalysis(afs, folder) == {f.name : f \in {g \in afs : g.folder = folder}}

\* the if/elif chain on filename.startswith
PrefixType(prefix) ==
    CASE prefix = "daily_digest_" -> "daily_digest"
      [] prefix = "weekly_summary_" -> "weekly_summary"
      [] prefix = "monthly_report_" -> "monthly_report"

\* the last entry of the list instead of the entry of greatest id
MaxByIdTakesLast(files, i, best) == Len(files)

RECURSIVE MaxById(_, _, _)
\* max(index["data_files"], key=lambda x: x["id"]): the first entry of greatest id
MaxById(files, i, best) ==
    IF i > Len(files) THEN best
    ELSE MaxById(files, i + 1, IF IdLess(files[best].id, files[i].id) THEN i ELSE best)

\* the body of the loop over one analysis folder for one filename
ScanAnalysisFile(doc, folder, name) ==
    IF name.prefix \notin AnalysisPrefixes THEN doc
    ELSE LET date_str == name.date   \* filename.split("_")[-1].split(".")[0]
             type == PrefixType(name.prefix)
             metrics == UpdateMetrics(doc.analysis_metrics, type, date_str)
             result == [type |-> type, date |-> date_str,
                        file_path |-> [folder |-> folder, name |-> name]]
         IN IF doc.data_files = <<>>
            THEN [doc EXCEPT !.analysis_metrics = metrics]
            ELSE [doc EXCEPT !.analysis_metrics = metrics,
                             !.data_files[MaxById(doc.data_files, 1, 1)].analysis_results =
                                 Append(@, result)]

RECURSIVE ScanAnalysis(_, _, _)
ScanAnalysis(doc, folder, order) ==
    IF order = <<>> THEN doc
    ELSE ScanAnalysis(ScanAnalysisFile(doc, folder, Head(order)), folder, Tail(order))

PodcastFolders == <<"weekly", "monthly">>
AudioStems == {"QuantumCrypto_Weekly_", "QuantumCrypto_Monthly_"}

\* os.listdir of podcasts/<folder>
ListPodcasts(pfs, folder) == {f.name : f \in {g \in pfs : g.folder = folder}}

\* f"podcast_script_{date_str}.txt"
ScriptName(date_str) == [stem |-> "podcast_script_", date |-> date_str, ext |-> "txt"]

\* the body of the loop over one podcast folder for one filename
ScanPodcastFile(doc, folder, name, pfs) ==
    IF ~(name.ext = "mp3" /\ name.stem \in AudioStems) THEN doc
    ELSE LET date_str == name.date   \* filename.split("_")[-1].split(".")[0]
             podcast_type == IF name.stem = "QuantumCrypto_Weekly_" THEN "weekly" ELSE "monthly"
             script == [folder |-> folder, name |-> ScriptName(date_str)]
         IN [doc EXCEPT !.podcasts =
                Append(@, [type |-> podcast_type, date |-> date_str,
                           script_path |-> IF script \in pfs THEN Some(script) ELSE None,
                           audio_path |-> Some([folder |-> folder, name |-> name])])]

RECURSIVE ScanPodcasts(_, _, _, _)
ScanPodcasts(doc, folder, order, pfs) ==
    IF order = <<>> THEN doc
    ELSE ScanPodcasts(ScanPodcastFile(doc, folder, Head(order), pfs), folder, Tail(order), pfs)

\* the scans run over the document in memory instead of over a new one
RebuiltIndexOnTop(cur, arch, an, pod) ==
    LET d1 == [index EXCEPT !.data_files = ScanArchives(ScanCurrent(@, cur, data_fs), arch)]
        d2 == ScanAnalysis(ScanAnalysis(ScanAnalysis(d1, AnalysisFolders[1], an[1]),
                                        AnalysisFolders[2], an[2]),
                           AnalysisFolders[3], an[3])
    IN ScanPodcasts(ScanPodcasts(d2, PodcastFolders[1], pod[1], podcast_fs),
                    PodcastFolders[2], pod[2], podcast_fs)

\* the rebuilt document, given the orders in which the directories are listed
RebuiltIndex(cur, arch, an, pod) ==
    LET fresh == CreateNewIndex(now)
        d1 == [fresh EXCEPT !.data_files = ScanArchives(ScanCurrent(<<>>, cur, data_fs), arch)]
        d2 == ScanAnalysis(ScanAnalysis(ScanAnalysis(d1, AnalysisFolders[1], an[1]),
                                        AnalysisFolders[2], an[2]),
                           AnalysisFolders[3], an[3])
    IN ScanPodcasts(ScanPodcasts(d2, PodcastFolders[1], pod[1], podcast_fs),
                    PodcastFolders[2], pod[2], podcast_fs)

RebuildIndex ==
    \E cur \in Perms(ListData(data_fs, "current")),
       arch \in Perms(ListData(data_fs, "archives")),
       an \in Perms(ListAnalysis(analysis_fs, AnalysisFolders[1]))
              \X Perms(ListAnalysis(analysis_fs, AnalysisFolders[2]))
              \X Perms(ListAnalysis(analysis_fs, AnalysisFolders[3])),
       pod \in Perms(ListPodcasts(podcast_fs, PodcastFolders[1]))
               \X Perms(ListPodcasts(podcast_fs, PodcastFolders[2])) :
        LET doc == Stamped(RebuiltIndex(cur, arch, an, pod), now)
        IN /\ index' = doc
           /\ index_file' = SavedFile(doc)
           /\ ret' = [Ret("rebuild_index", TRUE, "", 0, "")
                       EXCEPT !.again = (ret.op = "rebuild_index")]
           /\ UNCHANGED <<peer, data_fs, analysis_fs, podcast_fs, now, faults>>

----------------------------------------------------------------------------
(* The producers that write into analysis_results/ and podcasts/ *)

AnalysisFile(folder, prefix, date, ext) ==
    [folder |-> folder, name |-> [prefix |-> prefix, date |-> date, ext |-> ext]]

\* analysis files the analyzer may leave in the tree
AnalysisFileSamples ==
    {AnalysisFile("daily", "daily_digest_", 0, "md"),
     AnalysisFile("daily", "daily_digest_", 0, "txt"),
     AnalysisFile("weekly", "weekly_summary_", 1, "md")}

PodcastFileSamples ==
    {[folder |-> "weekly",
      name |-> [stem |-> "QuantumCrypto_Weekly_", date |-> 0, ext |-> "mp3"]],
     [folder |-> "weekly", name |-> ScriptName(0)]}

\* files that are not the catalog's own, left in the tree by hand or by another
\* program: an id without a time part, an id whose date is not a date, a name
\* with another extension, and a snapshot's JSON file with damaged content
DataGarbageSamples ==
    {DataPath("current", [id |-> <<0>>, ext |-> "json"]),
     DataPath("archives", [id |-> <<0 - 1, 0>>, ext |-> "csv"]),
     DataPath("current", [id |-> <<0, 0>>, ext |-> "txt"]),
     DataPath("current", DataFilename(<<1, 0>>, "json"))}

AnalysisGarbageSamples ==
    {AnalysisFile("daily", "recent_trends_summary_", 0, "txt")}

PodcastGarbageSamples ==
    {[folder |-> "weekly", name |-> [stem |-> "notes_", date |-> 0, ext |-> "mp3"]],
     [folder |-> "weekly",
      name |-> [stem |-> "QuantumCrypto_Weekly_", date |-> 0, ext |-> "mp3"]]}

\* a file appears in data/current or data/archives, or an existing one is
\* overwritten, with content that does not load as a list of items
DropDataFile(path) ==
    /\ ~(Exists(data_fs, path) /\ data_fs[path] = PartialContent)
    /\ data_fs' = WriteFile(data_fs, path, PartialContent)
    /\ ret' = Ret("drop_data_file", TRUE, "", 0, "")
    /\ UNCHANGED <<peer, index, index_file, analysis_fs, podcast_fs, now, faults>>

\* a content file is deleted outside the program
RemoveContentFile(path) ==
    /\ Exists(data_fs, path)
    /\ data_fs' = RemoveFile(data_fs, path)
    /\ faults' = faults + 1
    /\ ret' = Ret("remove_content_file", TRUE, "", 0, "")
    /\ UNCHANGED <<peer, index, index_file, analysis_fs, podcast_fs, now>>

WriteAnalysisFile(f) ==
    /\ f \notin analysis_fs
    /\ analysis_fs' = analysis_fs \cup {f}
    /\ ret' = Ret("write_analysis_file", TRUE, "", 0, "")
    /\ UNCHANGED <<peer, index, index_file, data_fs, podcast_fs, now, faults>>

WritePodcastFile(f) ==
    /\ f \notin podcast_fs
    /\ podcast_fs' = podcast_fs \cup {f}
    /\ ret' = Ret("write_podcast_file", TRUE, "", 0, "")
    /\ UNCHANGED <<peer, index, index_file, data_fs, analysis_fs, now, faults>>

----------------------------------------------------------------------------
(* The clock *)

Tick ==
    /\ now' = now + 1
    /\ ret' = Ret("tick", TRUE, "", 0, "")
    /\ UNCHANGED <<peer, index, index_file, data_fs, analysis_fs, podcast_fs, faults>>

----------------------------------------------------------------------------

Init ==
    /\ index = CreateNewIndex(0)
    /\ index_file = AbsentFile
    /\ peer = CreateNewIndex(0)
    /\ data_fs = <<>>
    /\ analysis_fs = {}
    /\ podcast_fs = {}
    /\ now = 0
    /\ faults = 0
    /\ ret = Ret("init", TRUE, "", 0, "")

----------------------------------------------------------------------------
(* What bounds the runs: the size of the catalog, the clock, the faults *)

RoomForSnapshot(n) == Len(index.data_files) < n
RoomForPodcast == Len(index.podcasts) < MaxPodcasts
RoomForFault == faults < MaxFaults
ClockRunsTo(day) == now < day
ClockRuns == ClockRunsTo(MaxDay)

\* a registration that appends needs room; one that overwrites does not
RoomForResult(id, type, d) ==
    \/ SumLen(index.data_files) < MaxResults
    \/ /\ HasId(index.data_files, id)
       /\ HasResult(index.data_files[FirstWithId(index.data_files, id)].analysis_results,
                    type, ResolveDate(d))

RoomForResultsUpTo(n, id, type, d) ==
    \/ SumLen(index.data_files) < n
    \/ /\ HasId(index.data_files, id)
       /\ HasResult(index.data_files[FirstWithId(index.data_files, id)].analysis_results,
                    type, ResolveDate(d))

\* paths a caller hands to register_podcast
ScriptPath == Some([folder |-> "weekly", name |-> ScriptName(0)])
AudioPath ==
    Some([folder |-> "weekly",
          name |-> [stem |-> "QuantumCrypto_Weekly_", date |-> 0, ext |-> "mp3"]])

\* the catalog operations, in any interleaving, from an empty catalog and tree
Next ==
    \/ \E ts \in Timestamps, data \in DataSets :
          RoomForSnapshot(MaxSnapshots) /\ SaveCollectedData(ts, data)
    \/ \E id \in Ids, type \in AnalysisTypes, p \in AnalysisPaths, d \in DateArgs :
          RoomForResult(id, type, d) /\ RegisterAnalysisResult(id, type, p, d)
    \/ \E type \in {"weekly"} :
          RoomForPodcast /\ RegisterPodcast(type, ScriptPath, AudioPath, Some(0))
    \/ \E d \in DaysThresholds : ArchiveOldData(d)
    \/ RebuildIndex
    \/ ClockRuns /\ Tick

Spec == Init /\ [][Next]_vars

\* snapshots only, one more of them and one more day: ingestion, archival, rebuild
NextSnapshots ==
    \/ \E ts \in Timestamps, data \in DataSets :
          RoomForSnapshot(MaxSnapshots + 1) /\ SaveCollectedData(ts, data)
    \/ \E d \in DaysThresholds : ArchiveOldData(d)
    \/ RebuildIndex
    \/ ClockRunsTo(MaxDay + 1) /\ Tick

SpecSnapshots == Init /\ [][NextSnapshots]_vars

\* snapshots, restarts of the process, and failures of the file system
NextFaults ==
    \/ \E ts \in Timestamps, data \in DataSets :
          RoomForSnapshot(MaxSnapshots) /\ SaveCollectedData(ts, data)
    \/ \E ts \in Timestamps, data \in DataSets, stage \in {"csv", "json_open", "json_dump"} :
          RoomForSnapshot(MaxSnapshots) /\ RoomForFault /\ SaveCollectedDataFails(ts, data, stage)
    \/ \E d \in DaysThresholds : ArchiveOldData(d)
    \/ RebuildIndex
    \/ LoadIndex
    \/ \E kind \in {"truncated", "undecodable"} : RoomForFault /\ CorruptIndexFile(kind)
    \/ ClockRuns /\ Tick

SpecFaults == Init /\ [][NextFaults]_vars

\* snapshots and analysis results over a tree the analyzer writes into
NextTree ==
    \/ \E ts \in Timestamps, data \in DataSets :
          RoomForSnapshot(MaxSnapshots) /\ SaveCollectedData(ts, data)
    \/ \E id \in Ids, type \in {"daily_digest", "wordcloud"}, p \in AnalysisPaths :
          RoomForResult(id, type, Some(0)) /\ RegisterAnalysisResult(id, type, p, Some(0))
    \/ RebuildIndex
    \/ \E f \in AnalysisFileSamples : WriteAnalysisFile(f)

SpecTree == Init /\ [][NextTree]_vars

\* podcasts over a tree the podcast generator writes into
NextPodcasts ==
    \/ \E type \in PodcastTypes, d \in DateArgs :
          RoomForPodcast /\ RegisterPodcast(type, ScriptPath, AudioPath, d)
    \/ RebuildIndex
    \/ \E f \in PodcastFileSamples : WritePodcastFile(f)
    \/ ClockRuns /\ Tick

SpecPodcasts == Init /\ [][NextPodcasts]_vars

IndexStages == {"index_open", "index_dump"}
StopStages == {"before_open", "opened", "dumping", "closed"}

\* the mutating operations over a file system that may deny a write
NextDenied ==
    \/ \E ts \in Timestamps, data \in DataSets :
          RoomForSnapshot(MaxSnapshots) /\ SaveCollectedData(ts, data)
    \/ \E id \in Ids, type \in {"daily_digest"}, p \in AnalysisPaths :
          RoomForResult(id, type, Some(0)) /\ RegisterAnalysisResult(id, type, p, Some(0))
    \/ \E d \in DaysThresholds : ArchiveOldData(d)
    \/ \E ts \in Timestamps, data \in DataSets, stage \in {"csv", "json_open", "json_dump"} :
          RoomForSnapshot(MaxSnapshots) /\ RoomForFault /\ SaveCollectedDataFails(ts, data, stage)
    \/ \E ts \in Timestamps, data \in DataSets, stage \in IndexStages :
          /\ RoomForSnapshot(MaxSnapshots) /\ RoomForFault
          /\ SaveCollectedDataIndexFails(ts, data, stage)
    \/ \E id \in Ids, type \in {"daily_digest"}, p \in AnalysisPaths, stage \in IndexStages :
          /\ RoomForResult(id, type, Some(0)) /\ RoomForFault
          /\ RegisterAnalysisResultIndexFails(id, type, p, Some(0), stage)
    \/ \E stage \in IndexStages :
          /\ RoomForPodcast /\ RoomForFault
          /\ RegisterPodcastIndexFails("weekly", ScriptPath, AudioPath, Some(0), stage)
    \/ \E d \in DaysThresholds, k \in {0, 1} :
          RoomForFault /\ ArchiveOldDataMoveFails(d, k)
    \/ ClockRuns /\ Tick

SpecDenied == Init /\ [][NextDenied]_vars

\* a process that may be stopped inside _save_index, and its restarts
NextStops ==
    \/ \E ts \in Timestamps, data \in DataSets :
          Running /\ RoomForSnapshot(MaxSnapshots) /\ SaveCollectedData(ts, data)
    \/ \E ts \in Timestamps, data \in DataSets, stage \in StopStages :
          /\ Running /\ RoomForSnapshot(MaxSnapshots) /\ RoomForFault
          /\ SaveCollectedDataStopped(ts, data, stage)
    \/ LoadIndex
    \/ Running /\ ClockRuns /\ Tick

SpecStops == Init /\ [][NextStops]_vars

\* the catalog over a tree that also holds files that are not its own
NextGarbage ==
    \/ \E ts \in Timestamps, data \in DataSets \ {<<>>} :
          RoomForSnapshot(1) /\ SaveCollectedData(ts, data)
    \/ \E p \in DataGarbageSamples : DropDataFile(p)
    \/ \E f \in AnalysisGarbageSamples : WriteAnalysisFile(f)
    \/ \E f \in PodcastGarbageSamples : WritePodcastFile(f)
    \/ RebuildIndex

SpecGarbage == Init /\ [][NextGarbage]_vars

\* ingestion and archival over a tree from which content files may disappear
NextMissing ==
    \/ \E ts \in Timestamps, data \in DataSets \ {<<>>} :
          RoomForSnapshot(MaxSnapshots + 1) /\ SaveCollectedData(ts, data)
    \/ \E d \in DaysThresholds : ArchiveOldData(d)
    \/ \E path \in DOMAIN data_fs : RoomForFault /\ RemoveContentFile(path)
    \/ ClockRunsTo(MaxDay + 1) /\ Tick

SpecMissing == Init /\ [][NextMissing]_vars

\* ingestion and archival alone, over a tree nothing else touches
NextIngest ==
    \/ \E ts \in Timestamps, data \in DataSets :
          RoomForSnapshot(MaxSnapshots + 1) /\ SaveCollectedData(ts, data)
    \/ \E d \in DaysThresholds : ArchiveOldData(d)
    \/ ClockRunsTo(MaxDay + 1) /\ Tick

SpecIngest == Init /\ [][NextIngest]_vars

\* rebuilds over a tree the collector, the analyzer and the podcast generator
\* write into
NextRebuilds ==
    \/ \E ts \in Timestamps, data \in DataSets \ {<<>>} :
          RoomForSnapshot(MaxSnapshots) /\ SaveCollectedData(ts, data)
    \/ \E f \in AnalysisFileSamples : WriteAnalysisFile(f)
    \/ \E f \in PodcastFileSamples : WritePodcastFile(f)
    \/ RebuildIndex

SpecRebuilds == Init /\ [][NextRebuilds]_vars

\* snapshots and the analysis results registered for them, one result more
NextResults ==
    \/ \E ts \in Timestamps, data \in DataSets \ {<<>>} :
          RoomForSnapshot(MaxSnapshots) /\ SaveCollectedData(ts, data)
    \/ \E id \in Ids, type \in AnalysisTypes, p \in AnalysisPaths, d \in DateArgs :
          /\ RoomForResultsUpTo(MaxResults + 1, id, type, d)
          /\ RegisterAnalysisResult(id, type, p, d)
    \/ ClockRuns /\ Tick

SpecResults == Init /\ [][NextResults]_vars

\* snapshots with texts to search, over content files that may be deleted or
\* damaged
NextSearch ==
    \/ \E ts \in Timestamps, data \in SearchDataSets :
          RoomForSnapshot(MaxSnapshots) /\ SaveCollectedData(ts, data)
    \/ \E path \in DOMAIN data_fs : RoomForFault /\ RemoveContentFile(path)
    \/ \E path \in DOMAIN data_fs : DropDataFile(path)
    \/ ClockRuns /\ Tick

SpecSearch == Init /\ [][NextSearch]_vars

\* two FileManager objects over one base path, their calls one after the other
NextPeers ==
    \/ \E ts \in Timestamps, data \in DataSets :
          RoomForSnapshot(MaxSnapshots) /\ SaveCollectedData(ts, data)
    \/ \E ts \in Timestamps, data \in DataSets :
          Len(peer.data_files) < MaxSnapshots /\ PeerSaveCollectedData(ts, data)
    \/ LoadIndex
    \/ PeerLoadIndex
    \/ ClockRuns /\ Tick

SpecPeers == Init /\ [][NextPeers]_vars

----------------------------------------------------------------------------
(* Claims *)

Snapshots == index.data_files
CurrentEntries == {i \in 1 .. Len(Snapshots) : Snapshots[i].status = "current"}
AfterSave == ret.op = "save_collected_data" /\ ret.ok

\* C1: immediately after every save_collected_data call, whatever the index it
\* started from, exactly one snapshot entry has status current, and it is the
\* last element of the snapshot sequence (the one the call appended).
C1_OneCurrentAfterSave ==
    AfterSave => CurrentEntries = {Len(Snapshots)} /\ Len(Snapshots) > 0

\* C1 witness: a save that started from an index holding two current entries
\* (left by a rebuild) has just returned, and demoted both.
C1_Witness ==
    /\ AfterSave
    /\ ret.count = 2
    /\ Len(Snapshots) = 3
    /\ CurrentEntries = {3}

\* C2: in every state reachable by the catalog operations, at most one
\* snapshot entry has status current.
C2_AtMostOneCurrent == Cardinality(CurrentEntries) <= 1

\* C3: no two entries of the snapshot sequence have the same id.
C3_UniqueIds ==
    \A i, j \in 1 .. Len(Snapshots) : Snapshots[i].id = Snapshots[j].id => i = j

ResultsFor(results, type, date) ==
    {k \in 1 .. Len(results) : results[k].type = type /\ results[k].date = date}

\* C4: a register_analysis_result call for a (kind, date) the snapshot already
\* holds (the second call with the same id, kind and date) leaves exactly one
\* entry for (kind, date) on that snapshot, holding the path of this call, and
\* does not add an entry.
C4_SecondCallOverwrites ==
    [][\A id \in Ids, type \in AnalysisTypes, p \in AnalysisPaths, d \in DateArgs :
          (/\ HasId(Snapshots, id)
           /\ HasResult(Snapshots[FirstWithId(Snapshots, id)].analysis_results,
                        type, ResolveDate(d))
           /\ RegisterAnalysisResult(id, type, p, d))
          => LET i == FirstWithId(Snapshots, id)
                 before == Snapshots[i].analysis_results
                 after == index'.data_files[i].analysis_results
                 keys == ResultsFor(after, type, ResolveDate(d))
             IN /\ Cardinality(keys) = 1
                /\ \A k \in keys : after[k].file_path = p
                /\ Len(after) = Len(before)]_vars

EmptyDocument(doc) ==
    /\ doc.data_files = <<>>
    /\ doc.podcasts = <<>>
    /\ doc.analysis_metrics.last_daily_digest = None
    /\ doc.analysis_metrics.last_weekly_summary = None
    /\ doc.analysis_metrics.last_monthly_report = None

\* C5: loading an index file that exists but is truncated or otherwise invalid
\* returns a fresh empty document, does not raise, and leaves the invalid file
\* as it was.
C5_LoadInvalidGivesEmpty ==
    (ret.op = "load_index" /\ ret.note \in {"truncated", "undecodable"})
        => /\ ret.raised = ""
           /\ EmptyDocument(index)
           /\ index_file.kind = ret.note

\* C6: archive_old_data invoked a second time with the same threshold and
\* nothing in between returns 0 and changes neither the document, nor the index
\* file, nor the content files.
C6_ArchiveTwice ==
    /\ [](ret.op = "archive_old_data" /\ ret.again => ret.count = 0)
    /\ [][\A d \in DaysThresholds :
             (ret.op = "archive_old_data" /\ ret.note = Some(d) /\ ArchiveOldData(d))
             => /\ index' = index
                /\ index_file' = index_file
                /\ data_fs' = data_fs]_vars

IdsOf(doc) == {doc.data_files[i].id : i \in 1 .. Len(doc.data_files)}

\* C7: rebuild_index over a tree the catalog operations produced yields a
\* document with the same set of snapshot ids as the index before the rebuild.
C7_RebuildKeepsIds ==
    [][ret'.op = "rebuild_index" => IdsOf(index') = IdsOf(index)]_vars

\* C7 witness: a rebuild has just run over a tree holding one snapshot in
\* data/archives and another in data/current.
C7_Witness ==
    /\ ret.op = "rebuild_index"
    /\ Cardinality(IdsOf(index)) = 2
    /\ \E p \in DOMAIN data_fs : p.folder = "archives"
    /\ \E p \in DOMAIN data_fs : p.folder = "current"

\* C8: get_latest_data_file returns absent on an empty catalog, the recorded
\* path (under the base path) of an entry with status current when there is
\* one, and otherwise the path of the last entry in insertion order.
C8_LatestSnapshotPath ==
    \A ft \in {"csv", "json"} :
        LET got == GetLatestDataFile(index, ft)
        IN /\ Snapshots = <<>> => got = None
           /\ CurrentEntries # {} =>
                 \E i \in CurrentEntries : got = Some(Joined(Snapshots[i].file_paths[ft]))
           /\ (Snapshots # <<>> /\ CurrentEntries = {}) =>
                 got = Some(Joined(Snapshots[Len(Snapshots)].file_paths[ft]))

\* C8 witness: after registering A then B, A is archived and the latest
\* snapshot path is B's, not A's.
C8_Witness ==
    /\ AfterSave
    /\ Len(Snapshots) = 2
    /\ Snapshots[1].status = "archived"
    /\ Snapshots[1].id # Snapshots[2].id
    /\ GetLatestDataFile(index, "json") = Some(Joined(Snapshots[2].file_paths.json))
    /\ GetLatestDataFile(index, "json") # Some(Joined(Snapshots[1].file_paths.json))

\* C8 second witness: no entry is current (a rebuild found archived files
\* only) and the path returned is the last entry's.
C8_WitnessFallback ==
    /\ Len(Snapshots) = 2
    /\ CurrentEntries = {}
    /\ Snapshots[1].file_paths.csv # Snapshots[2].file_paths.csv
    /\ GetLatestDataFile(index, "csv") = Some(Joined(Snapshots[2].file_paths.csv))

\* C9: register_analysis_result with an id that is not in the catalog returns
\* False without raising and changes neither the in-memory document nor the
\* index file.
C9_UnknownIdNoEffect ==
    [][\A id \in Ids, type \in AnalysisTypes, p \in AnalysisPaths, d \in DateArgs :
          (~HasId(Snapshots, id) /\ RegisterAnalysisResult(id, type, p, d))
          => /\ ret'.op = "register_analysis_result"
             /\ ret'.ok = FALSE
             /\ ret'.raised = ""
             /\ index' = index
             /\ index_file' = index_file]_vars

\* C9 witness: a call with an unknown id has returned False on a catalog that
\* holds a snapshot, saved on an earlier day.
C9_Witness ==
    /\ ret.op = "register_analysis_result"
    /\ ~ret.ok
    /\ ret.note = "not_found"
    /\ Len(Snapshots) > 0
    /\ index_file.kind = "valid"
    /\ index_file.doc.last_updated < now

\* C10: when save_collected_data fails because the CSV or JSON content file
\* cannot be written, the in-memory document is as before the call: nothing
\* appended, nothing demoted.
C10_FailedSaveKeepsDocument ==
    [][(ret'.op = "save_collected_data" /\ ret'.raised # "") => index' = index]_vars

\* C10 witness: a save has failed while writing the JSON file, on a catalog
\* whose last entry is still current.
C10_Witness ==
    /\ ret.op = "save_collected_data"
    /\ ret.raised = "OSError"
    /\ ret.note = "json_dump"
    /\ Len(Snapshots) > 0
    /\ CurrentEntries = {Len(Snapshots)}

\* C13: with two FileManager objects over the same base path whose calls never
\* overlap, every save_collected_data acts on the document as last persisted:
\* the index file after the call still holds every snapshot id it held before
\* it, so after a save by one object and a save by the other it holds both.
C13_SavesOfBothPersisted ==
    [][(ret'.op \in {"save_collected_data", "peer.save_collected_data"} /\ ret'.ok)
          => IdsOf(index_file.doc) \subseteq IdsOf(index_file'.doc)]_vars

\* C11: a mutating operation during which the file system denies a write (of
\* a content file, of a move, or of the index file) has no effect: the
\* in-memory document, the index file and the content files are as before.
C11_DeniedWriteNoEffect ==
    [][ret'.raised = "OSError"
          => /\ index' = index
             /\ index_file' = index_file
             /\ data_fs' = data_fs]_vars

\* C12: wherever the process stops inside _save_index, the index file is the
\* complete document saved before or the complete new document, never a part.
C12_NoHalfWrittenIndex ==
    [][ret'.raised = "ProcessStopped"
          => index_file' \in {index_file, SavedFile(index')}]_vars

\* a data file rebuild_index has to index: its name follows the convention,
\* its id parses, and the try block does not raise on it; a file of
\* data/current whose snapshot has a JSON file there that does not load is
\* skipped with that JSON file, unless data/archives holds a file of that id
MustBeIndexed(p) ==
    /\ IsDataFilename(p.name)
    /\ ParsesAsId(p.name.id)
    /\ \/ p.folder = "archives"
       \/ LET json_path == DataPath("current", DataFilename(p.name.id, "json"))
          IN Exists(data_fs, json_path) => data_fs[json_path].ok
       \/ \E q \in DOMAIN data_fs :
             q.folder = "archives" /\ IsDataFilename(q.name) /\ q.name.id = p.name.id

\* C14: rebuild_index completes and returns a saved document whatever the
\* directories hold; a file whose name does not follow the convention, whose
\* id does not parse or whose JSON does not load is skipped, and every other
\* data file is indexed under its id, and only ids of files on disk are indexed.
C14_RebuildTotal ==
    ret.op = "rebuild_index" =>
        /\ ret.ok /\ ret.raised = ""
        /\ index_file = SavedFile(index)
        /\ \A p \in DOMAIN data_fs : MustBeIndexed(p) => p.name.id \in IdsOf(index)
        /\ \A id \in IdsOf(index) :
              /\ ParsesAsId(id)
              /\ \E p \in DOMAIN data_fs : IsDataFilename(p.name) /\ p.name.id = id
        /\ \A i \in 1 .. Len(index.podcasts) :
              index.podcasts[i].audio_path[1].name.stem \in AudioStems
        /\ \A i \in 1 .. Len(Snapshots) : Snapshots[i].analysis_results = <<>>

\* C14 witness: a rebuild has run over a tree holding a file with a malformed
\* id, a JSON file that does not load, and a well-formed snapshot, which is
\* indexed.
C14_Witness ==
    /\ ret.op = "rebuild_index"
    /\ \E p \in DOMAIN data_fs : IsDataFilename(p.name) /\ ~ParsesAsId(p.name.id)
    /\ \E p \in DOMAIN data_fs :
          /\ IsDataFilename(p.name) /\ ParsesAsId(p.name.id) /\ ~data_fs[p].ok
          /\ p.name.id \notin IdsOf(index)
    /\ \E p \in DOMAIN data_fs : MustBeIndexed(p) /\ p.folder = "current"
    /\ Len(index.data_files) > 0

Eligible(entry, threshold) == entry.status = "archived" /\ entry.date < threshold
Alone(files, i) == \A j \in 1 .. Len(files) : j # i => files[j].id # files[i].id

\* C15: archive_old_data changes only the entries with status archived and a
\* date before now - days_threshold. For such an entry (the only one of its
\* id) a content file missing at its recorded path is skipped: its path stays,
\* it is not counted, the call does not raise; every file that is there is
\* moved into data/archives with its content, and its recorded path rewritten.
C15_ArchiveSkipsMissing ==
    [][\A d \in DaysThresholds :
          (ret'.op = "archive_old_data" /\ ret'.note = Some(d))
          => LET threshold == now - d
                 before == index.data_files
                 after == index'.data_files
                 there == {x \in (1 .. Len(before)) \X {"csv", "json"} :
                             /\ Eligible(before[x[1]], threshold)
                             /\ Exists(data_fs, before[x[1]].file_paths[x[2]])}
             IN /\ ret'.ok /\ ret'.raised = ""
                /\ Len(after) = Len(before)
                /\ \A i \in 1 .. Len(before) :
                      ~Eligible(before[i], threshold) => after[i] = before[i]
                /\ \A i \in 1 .. Len(before), ft \in {"csv", "json"} :
                      (Eligible(before[i], threshold) /\ Alone(before, i))
                      => LET source == before[i].file_paths[ft]
                             dest == DataPath("archives", source.name)
                         IN IF Exists(data_fs, source)
                            THEN /\ after[i].file_paths[ft] = dest
                                 /\ Exists(data_fs', dest)
                                 /\ data_fs'[dest] = data_fs[source]
                                 /\ source # dest => ~Exists(data_fs', source)
                            ELSE /\ after[i].file_paths[ft] = source
                                 /\ ~Exists(data_fs', source)
                /\ (\A i \in 1 .. Len(before) : Alone(before, i))
                      => ret'.count = Cardinality(there)]_vars

\* C15 witness: an archive_old_data has returned 3: of two eligible entries,
\* one had a file missing (its path still points into data/current, where
\* nothing is) and its other file, and both files of the other entry, moved.
C15_Witness ==
    /\ ret.op = "archive_old_data"
    /\ ret.count = 3
    /\ \E i, j \in 1 .. Len(Snapshots) :
          /\ i # j
          /\ Snapshots[i].id # Snapshots[j].id
          /\ Snapshots[i].file_paths.csv.folder = "current"
          /\ ~Exists(data_fs, Snapshots[i].file_paths.csv)
          /\ Snapshots[i].file_paths.json.folder = "archives"
          /\ Exists(data_fs, Snapshots[i].file_paths.json)
          /\ Snapshots[j].file_paths.csv.folder = "archives"
          /\ Snapshots[j].file_paths.json.folder = "archives"

MetricOf(metrics, type) ==
    CASE type = "daily_digest" -> metrics.last_daily_digest
      [] type = "weekly_summary" -> metrics.last_weekly_summary
      [] type = "monthly_report" -> metrics.last_monthly_report

MetricKinds == {"daily_digest", "weekly_summary", "monthly_report"}

\* C16: after a successful register_analysis_result for one of the three
\* metric kinds, the metric of that kind is the date of the call, whatever it
\* was, and the metrics of the other two kinds are as before.
C16_MetricLastWriteWins ==
    [][\A id \in Ids, type \in MetricKinds, p \in AnalysisPaths, d \in DateArgs :
          (HasId(Snapshots, id) /\ RegisterAnalysisResult(id, type, p, d))
          => /\ ret'.ok
             /\ MetricOf(index'.analysis_metrics, type) = Some(ResolveDate(d))
             /\ \A other \in MetricKinds \ {type} :
                   MetricOf(index'.analysis_metrics, other)
                       = MetricOf(index.analysis_metrics, other)]_vars

\* C16 witness: the last daily digest registered is dated day 0 and the metric
\* says so, although a daily digest dated day 1 was registered before it.
C16_Witness ==
    /\ ret.op = "register_analysis_result"
    /\ ret.ok
    /\ index.analysis_metrics.last_daily_digest = Some(0)
    /\ \E k \in 1 .. Len(AllResults(Snapshots)) :
          /\ AllResults(Snapshots)[k].type = "daily_digest"
          /\ AllResults(Snapshots)[k].date = 1

\* C17: get_analysis_by_type without a date returns the path of the analysis
\* of that type with the greatest date, the first in scan order among equals,
\* and None when there is no analysis of that type; with a date it returns the
\* path of an analysis of exactly that type and date, and None when there is none.
C17_LatestAnalysis ==
    \A type \in AnalysisTypes :
        LET all == AllResults(Snapshots)
            of_type == {k \in 1 .. Len(all) : all[k].type = type}
            got == GetAnalysisByType(index, type, None)
        IN /\ of_type = {} => got = None
           /\ of_type # {} =>
                 \E k \in of_type :
                    /\ \A j \in of_type : all[j].date <= all[k].date
                    /\ \A j \in of_type : j < k => all[j].date < all[k].date
                    /\ got = Some(Joined(all[k].file_path))
           /\ \A date \in Days :
                 LET on_date == {k \in of_type : all[k].date = date}
                     dated == GetAnalysisByType(index, type, Some(date))
                 IN /\ on_date = {} => dated = None
                    /\ on_date # {} =>
                          \E k \in on_date : dated = Some(Joined(all[k].file_path))

\* C17 witness: two snapshots each hold a daily digest of the same date under
\* different paths, and the path returned is the first one's.
C17_Witness ==
    /\ Len(Snapshots) = 2
    /\ Len(Snapshots[1].analysis_results) = 1
    /\ Len(Snapshots[2].analysis_results) = 1
    /\ Snapshots[1].analysis_results[1].type = "daily_digest"
    /\ Snapshots[2].analysis_results[1].type = "daily_digest"
    /\ Snapshots[1].analysis_results[1].date = Snapshots[2].analysis_results[1].date
    /\ Snapshots[1].analysis_results[1].file_path # Snapshots[2].analysis_results[1].file_path
    /\ GetAnalysisByType(index, "daily_digest", None)
          = Some(Joined(Snapshots[1].analysis_results[1].file_path))

\* C17 second witness: the analysis of the greatest date is not the last one
\* found, and it is the one returned.
C17_WitnessGreatest ==
    LET all == AllResults(Snapshots)
    IN /\ Len(all) = 2
       /\ all[1].type = "weekly_summary" /\ all[2].type = "weekly_summary"
       /\ all[1].date > all[2].date
       /\ all[1].file_path # all[2].file_path
       /\ GetAnalysisByType(index, "weekly_summary", None) = Some(Joined(all[1].file_path))

\* the text contains the keyword, case-insensitively
Mentions(text, keyword) == IsSubstring(TextLower(keyword), TextLower(text))

Hit(item, keyword) == Mentions(item.title, keyword) \/ Mentions(item.summary, keyword)

\* the JSON file of the entry is there, loads, and the title and summary of
\* its items are texts (absent counts as the empty text), not null
JsonReadable(entry) ==
    /\ Exists(data_fs, entry.file_paths.json)
    /\ data_fs[entry.file_paths.json].ok
    /\ \A k \in 1 .. Len(data_fs[entry.file_paths.json].data) :
          LET item == data_fs[entry.file_paths.json].data[k]
          IN item.title # NoneText /\ item.summary # NoneText

RECURSIVE ExpectedResults(_, _)
\* one result for each snapshot, in order, whose JSON file is readable and
\* holds an item that mentions the keyword, with exactly those items
ExpectedResults(files, keyword) ==
    IF files = <<>> THEN <<>>
    ELSE LET entry == Head(files)
             items == IF JsonReadable(entry)
                      THEN SelectSeq(data_fs[entry.file_paths.json].data,
                                     LAMBDA item : Hit(item, keyword))
                      ELSE <<>>
         IN (IF items # <<>>
             THEN <<[file_id |-> entry.id, date |-> entry.date, matches |-> items]>>
             ELSE <<>>) \o ExpectedResults(Tail(files), keyword)

C18_WitnessMissing ==
    /\ Len(Snapshots) = 2
    /\ ~Exists(data_fs, Snapshots[1].file_paths.json)
    /\ SearchByKeyword(index, data_fs, <<"K", "D">>)
          = <<[file_id |-> Snapshots[2].id, date |-> Snapshots[2].date,
               matches |-> <<ItemResearch>>]>>

\* C18 third witness: the JSON file of the first snapshot does not load; the
\* second snapshot still answers the search.
C18_WitnessUnreadable ==
    /\ Len(Snapshots) = 2
    /\ Exists(data_fs, Snapshots[1].file_paths.json)
    /\ ~data_fs[Snapshots[1].file_paths.json].ok
    /\ Len(SearchByKeyword(index, data_fs, <<"K", "D">>)) = 1
    /\ SearchByKeyword(index, data_fs, <<"K", "D">>)[1].file_id = Snapshots[2].id

NormalOps ==
    {"save_collected_data", "register_analysis_result", "register_podcast",
     "archive_old_data"}

KeysOf(entry) ==
    {<<entry.analysis_results[k].type, entry.analysis_results[k].date>> :
        k \in 1 .. Len(entry.analysis_results)}

\* C19: save_collected_data, register_analysis_result, register_podcast and
\* archive_old_data never remove a snapshot entry and keep the entries in
\* order (the id sequence before the call is a prefix of the one after it),
\* and the set of (type, date) keys of each snapshot's analyses only grows.
C19_EntriesOnlyGrow ==
    [][ret'.op \in NormalOps
          => /\ Len(index'.data_files) >= Len(index.data_files)
             /\ \A i \in 1 .. Len(index.data_files) :
                   /\ index'.data_files[i].id = index.data_files[i].id
                   /\ KeysOf(index.data_files[i]) \subseteq KeysOf(index'.data_files[i])]_vars

\* C19 witness: a save has appended a second entry behind one that holds an
\* analysis and has its files in data/archives.
C19_Witness ==
    /\ AfterSave
    /\ Len(Snapshots) = 2
    /\ Snapshots[1].id # Snapshots[2].id
    /\ KeysOf(Snapshots[1]) # {}
    /\ Snapshots[1].file_paths.csv.folder = "archives"

\* C20: in every reachable state, also after rebuild_index over the analysis
\* files of the daily, weekly and monthly directories, the analyses of a
\* snapshot hold at most one entry for each (type, date) pair.
C20_OneResultPerKey ==
    \A i \in 1 .. Len(Snapshots) :
        \A k1, k2 \in 1 .. Len(Snapshots[i].analysis_results) :
            (/\ Snapshots[i].analysis_results[k1].type = Snapshots[i].analysis_results[k2].type
             /\ Snapshots[i].analysis_results[k1].date = Snapshots[i].analysis_results[k2].date)
            => k1 = k2

\* data/<folder> holds a content file of this snapshot id
InFolder(id, folder) ==
    \E p \in DOMAIN data_fs : p.folder = folder /\ IsDataFilename(p.name) /\ p.name.id = id

\* C21: after rebuild_index, an entry whose id has content files both in
\* data/current and in data/archives keeps the status current that the scan of
\* data/current gave it; only its paths point into data/archives, for each
\* kind of file found there.
C21_ArchiveScanKeepsCurrent ==
    ret.op = "rebuild_index" =>
        \A i \in 1 .. Len(Snapshots) :
            (InFolder(Snapshots[i].id, "current") /\ InFolder(Snapshots[i].id, "archives"))
            => /\ Snapshots[i].status = "current"
               /\ \A ft \in {"csv", "json"} :
                     Snapshots[i].file_paths[ft].folder =
                        IF Exists(data_fs, DataPath("archives",
                                                    DataFilename(Snapshots[i].id, ft)))
                        THEN "archives" ELSE "current"

\* C22: after rebuild_index, every entry whose recorded JSON file is on disk
\* and loads, in data/current or in data/archives, has the stats computed from
\* the items of that file.
C22_RebuiltStatsFromJson ==
    ret.op = "rebuild_index" =>
        \A i \in 1 .. Len(Snapshots) :
            LET json_path == Snapshots[i].file_paths.json
            IN (Exists(data_fs, json_path) /\ data_fs[json_path].ok)
               => Snapshots[i].stats = ComputeStats(data_fs[json_path].data)

\* the analysis files of the tree whose name starts with a known prefix
Recognized == {f \in analysis_fs : f.name.prefix \in AnalysisPrefixes}

\* the result a recognized analysis file stands for
ResultOfFile(f) ==
    [type |-> PrefixType(f.name.prefix), date |-> f.name.date, file_path |-> f]

\* C23: after rebuild_index, when some snapshot entry was rebuilt, the entry
\* of greatest id holds exactly one analysis result for every recognized file
\* of the analysis folders and every other entry holds none.
C23_ResultsOnGreatestId ==
    (ret.op = "rebuild_index" /\ Snapshots # <<>>) =>
        \E m \in 1 .. Len(Snapshots) :
            /\ \A j \in 1 .. Len(Snapshots) : ~IdLess(Snapshots[m].id, Snapshots[j].id)
            /\ Len(Snapshots[m].analysis_results) = Cardinality(Recognized)
            /\ {Snapshots[m].analysis_results[k] :
                    k \in 1 .. Len(Snapshots[m].analysis_results)}
               = {ResultOfFile(f) : f \in Recognized}
            /\ \A j \in 1 .. Len(Snapshots) :
                  j # m => Snapshots[j].analysis_results = <<>>

\* a rebuild that listed the snapshot of greatest id first and gave it the
\* results of three analysis files
C23_Witness ==
    /\ ret.op = "rebuild_index"
    /\ Len(Snapshots) = 2
    /\ IdLess(Snapshots[2].id, Snapshots[1].id)
    /\ Len(Snapshots[1].analysis_results) = 3
    /\ Snapshots[2].analysis_results = <<>>

\* C24: with save_collected_data and archive_old_data alone, every path
\* recorded in a snapshot entry names a file that exists there.
C24_RecordedPathsExist ==
    \A i \in 1 .. Len(Snapshots) :
        \A ft \in {"csv", "json"} : Exists(data_fs, Snapshots[i].file_paths[ft])

\* C25: an entry that is archived is never current again. The operations
\* other than rebuild_index keep the entries in place, so the entry is followed
\* by its position; rebuild_index makes new entries, so it is followed by its
\* id, for the ids all of whose entries were archived.
C25_ArchivedStaysArchived ==
    [][/\ ret'.op # "rebuild_index" =>
            \A i \in 1 .. Len(index.data_files) :
                (index.data_files[i].status = "archived" /\ i <= Len(index'.data_files))
                => index'.data_files[i].status = "archived"
       /\ ret'.op = "rebuild_index" =>
            \A i \in 1 .. Len(index.data_files) :
                (\A j \in 1 .. Len(index.data_files) :
                    index.data_files[j].id = index.data_files[i].id
                    => index.data_files[j].status = "archived")
                => \A k \in 1 .. Len(index'.data_files) :
                      index'.data_files[k].id = index.data_files[i].id
                      => index'.data_files[k].status # "current"]_vars

\* C27: archive_old_data changes no status, moves no content file of an entry
\* whose status is current, changes only the paths of archived entries older
\* than the threshold, and leaves every other field of every entry, the
\* podcasts and the analysis metrics as they were.
C27_ArchiveTouchesOnlyOldArchived ==
    [][ret'.op = "archive_old_data" =>
         LET threshold == now - ret'.note[1]
             before == index.data_files
             after == index'.data_files
         IN /\ Len(after) = Len(before)
            /\ \A i \in 1 .. Len(before) :
                  /\ after[i] = [before[i] EXCEPT !.file_paths = after[i].file_paths]
                  /\ ~Eligible(before[i], threshold)
                     => after[i].file_paths = before[i].file_paths
                  /\ before[i].status = "current" =>
                        \A ft \in {"csv", "json"} :
                            Exists(data_fs, before[i].file_paths[ft])
                            => Exists(data_fs', before[i].file_paths[ft])
            /\ index'.podcasts = index.podcasts
            /\ index'.analysis_metrics = index.analysis_metrics]_vars

MutatingOps ==
    {"save_collected_data", "register_analysis_result", "register_podcast",
     "archive_old_data", "rebuild_index"}

\* C26: after a mutating operation that returned normally (for
\* register_analysis_result: returned True), loading the index file gives the
\* in-memory document. While no index file was ever written the load gives a
\* new empty document, which is the in-memory one up to its last_updated.
C26_FileHoldsDocument ==
    (ret.op \in MutatingOps /\ ret.ok /\ ret.raised = "") =>
        /\ LoadRaises(index_file) = ""
        /\ IF index_file.kind = "absent"
           THEN Stamped(LoadedIndex(index_file, now), index.last_updated) = index
           ELSE LoadedIndex(index_file, now) = index

\* archive_old_data returned 0 without saving, over a catalog with a snapshot
\* whose index file an earlier operation wrote
C26_Witness ==
    /\ ret.op = "archive_old_data"
    /\ ret.count = 0
    /\ Snapshots # <<>>
    /\ index_file = SavedFile(index)

\* archive_old_data moved files, rewrote paths and saved
C26_WitnessMoved ==
    /\ ret.op = "archive_old_data"
    /\ ret.count > 0
    /\ index_file = SavedFile(index)
    /\ \E i \in 1 .. Len(Snapshots) : Snapshots[i].file_paths.json.folder = "archives"

\* how many times v occurs in seq
Occurrences(seq, v) == Cardinality({k \in 1 .. Len(seq) : seq[k] = v})

\* the same elements the same number of times, in whatever order
SameBag(a, b) ==
    /\ Len(a) = Len(b)
    /\ \A k \in 1 .. Len(a) : Occurrences(a, a[k]) = Occurrences(b, a[k])

\* the same entry, its analysis results in whatever order
SameEntry(e, f) ==
    /\ [e EXCEPT !.analysis_results = <<>>] = [f EXCEPT !.analysis_results = <<>>]
    /\ SameBag(e.analysis_results, f.analysis_results)

\* C28: rebuild_index run again on the tree it has just rebuilt from gives the
\* same snapshot entries with the same analysis results, the same analysis
\* metrics and the same podcasts, none of them duplicated; the order in which
\* the directories are listed may differ between the two runs, so lists are
\* compared up to order.
C28_RebuildIdempotent ==
    [][(ret.op = "rebuild_index" /\ ret'.op = "rebuild_index") =>
          /\ Len(index'.data_files) = Len(index.data_files)
          /\ \A i \in 1 .. Len(index.data_files) :
                \E j \in 1 .. Len(index'.data_files) :
                    SameEntry(index.data_files[i], index'.data_files[j])
          /\ \A j \in 1 .. Len(index'.data_files) :
                \E i \in 1 .. Len(index.data_files) :
                    SameEntry(index.data_files[i], index'.data_files[j])
          /\ index'.analysis_metrics = index.analysis_metrics
          /\ SameBag(index'.podcasts, index.podcasts)]_vars

\* a second rebuild in a row over a tree with two snapshots, three analysis
\* files and a podcast
C28_Witness ==
    /\ ret.op = "rebuild_index"
    /\ ret.again
    /\ Len(Snapshots) = 2
    /\ Len(index.podcasts) = 1
    /\ \E i \in 1 .. Len(Snapshots) : Len(Snapshots[i].analysis_results) = 3

\* C29: whenever the analysis metric of a kind holds a date, some snapshot
\* entry holds an analysis result of that kind and date.
C29_MetricBackedByResult ==
    \A kind \in MetricKinds :
        MetricOf(index.analysis_metrics, kind) # None =>
            \E i \in 1 .. Len(Snapshots) :
                ResultsFor(Snapshots[i].analysis_results, kind,
                           MetricOf(index.analysis_metrics, kind)[1]) # {}

\* C30: whenever the catalog holds a snapshot, get_latest_data_file returns
\* the recorded path of a snapshot of greatest id.
C30_LatestIsGreatestId ==
    Snapshots # <<>> =>
        \A ft \in {"csv", "json"} :
            \E m \in 1 .. Len(Snapshots) :
                /\ \A j \in 1 .. Len(Snapshots) : ~IdLess(Snapshots[m].id, Snapshots[j].id)
                /\ GetLatestDataFile(index, ft) = Some(Joined(Snapshots[m].file_paths[ft]))

====
